---- MODULE Spec2Model ----
(***************************************************************************)
(* Model of rustcp's polynomial engine (contest/src/poly.rs), its sparse   *)
(* table (template/src/sparse_table.rs) and its run-time modulus           *)
(* arithmetic (template/src/dynamic_modint.rs).                            *)
(*                                                                         *)
(* A polynomial is the sequence of its coefficients, lowest degree first;  *)
(* TLA+ sequences are 1-based, so coefficient i of the source is p[i+1].   *)
(* The coefficient field is Z_modulus for a prime modulus.                 *)
(***************************************************************************)
EXTENDS Integers, Sequences, FiniteSets, TLC

VARIABLES
    modulus,   \* Modulus.modulus: the process-wide modulus
    mconst,    \* Modulus.zero, Modulus.one and Modulus.primitive_root
    poly,      \* the receiver (self) of the polynomial operations
    rhs,       \* the second operand of the last operation (<<>> when it had none)
    n,         \* the numeric argument of the last operation
    bits,      \* the bit sequence handed to the last downgrade_mod
    op,        \* the last operation
    res,       \* what the last operation returned
    ma, mb,    \* the residues handed to the last Modulus::add / Modulus::sub
    mout,      \* what it returned
    overflow_checks, \* the build: TRUE when + and - panic on overflow (the
               \* default of a debug build), FALSE when they wrap (release)
    s,         \* the slice a SparseTable was built from
    f,         \* the combiner of the table
    data,      \* SparseTable.data
    ql, qr,    \* the last query
    qres,      \* what the last query returned
    polys,     \* the slice handed to batch_mul
    stack      \* the call stack of batch_mul: one frame per active call

vars == <<modulus, mconst, poly, rhs, n, bits, op, res, ma, mb, mout, overflow_checks, s, f, data, ql, qr, qres,
          polys, stack>>

polyVars == <<poly, rhs, n, bits, res>>
modVars == <<ma, mb, mout, overflow_checks>>
tableVars == <<s, f, data, ql, qr, qres>>
batchVars == <<polys, stack>>

-----------------------------------------------------------------------------
(* Bounds of the model *)

\* longest receiver (number of coefficients)
MaxLen == 4
\* longest second operand
MaxRhs == 3
\* largest precision / shift argument
MaxN == 4
\* longest bit sequence
MaxBits == 4
\* width of the machine word of Modulus<T>
WordBits == 3
\* longest slice a sparse table is built from
MaxSlice == 4
\* largest element of such a slice
MaxVal == 4
\* longest slice handed to batch_mul
MaxBatch == 3
\* longest polynomial of such a slice
MaxFactor == 2
\* number of frames the call stack holds before it overflows
MaxDepth == 4

-----------------------------------------------------------------------------
(* What an aborted computation returns: a failed should!/should_eq!, an    *)
(* out-of-range slice, a division by zero.                                 *)
Panic == <<-1>>

RECURSIVE Pow2(_)
Pow2(k) == IF k = 0 THEN 1 ELSE 2 * Pow2(k - 1)

Max2(x, y) == IF x >= y THEN x ELSE y
Min2(x, y) == IF x <= y THEN x ELSE y

Reverse(p) == [i \in 1..Len(p) |-> p[Len(p) + 1 - i]]

-----------------------------------------------------------------------------
(* The Field capability on the coefficients: Z_modulus.                    *)

Elems == 0..(modulus - 1)

FAdd(x, y) == (x + y) % modulus
FSub(x, y) == (x - y + modulus) % modulus
FMul(x, y) == (x * y) % modulus
FromNumber(k) == k % modulus
Invertible(x) == \E y \in Elems : FMul(x, y) = 1 % modulus
FInv(x) == CHOOSE y \in Elems : FMul(x, y) = 1 % modulus
FDiv(x, y) == FMul(x, FInv(y))

-----------------------------------------------------------------------------
(* poly_common and math helpers                                            *)

RECURSIVE poly_trim(_)
poly_trim(p) ==
    IF Len(p) = 0 THEN <<0>>
    ELSE IF Len(p) > 1 /\ p[Len(p)] = 0 THEN poly_trim(SubSeq(p, 1, Len(p) - 1))
    ELSE p

poly_extend(p, k) == [i \in 1..k |-> IF i <= Len(p) THEN p[i] ELSE 0]

poly_modular(p, k) == SubSeq(p, 1, Min2(k, Len(p)))

poly_modular_ref(p, k) == poly_modular(p, k)

RECURSIVE poly_length_from(_, _)
poly_length_from(k, w) == IF w >= k THEN w ELSE poly_length_from(k, 2 * w)

poly_length(k) == poly_length_from(k, 1)

inverse_batch(xs) == [i \in 1..Len(xs) |-> FInv(xs[i])]

RECURSIVE ConvSum(_, _, _, _)
ConvSum(p, q, k, i) ==
    IF i > Len(p) THEN 0
    ELSE LET j == k - i + 1
             t == IF j >= 1 /\ j <= Len(q) THEN FMul(p[i], q[j]) ELSE 0
         IN FAdd(t, ConvSum(p, q, k, i + 1))

convolution(p, q) ==
    IF Len(p) = 0 \/ Len(q) = 0 THEN <<0>>
    ELSE [k \in 1..(Len(p) + Len(q) - 1) |-> ConvSum(p, q, k, 1)]

Convolution_pow2(p) == convolution(p, p)

-----------------------------------------------------------------------------
(* PolyInverse                                                             *)

\* inverse_step with the Newton correction 1 - p*C in place of 2 - p*C
inverse_step_plus_one(p, C0) ==
    LET m == Len(p)
        proper_len == poly_length(m)
        C == poly_extend(C0, proper_len)
        A == poly_extend(p, proper_len)
        AC0 == poly_extend(convolution(A, C), m)
        AC1 == [i \in 1..m |-> FSub(0, AC0[i])]
        AC == [AC1 EXCEPT ![1] = FAdd(AC1[1], FromNumber(1))]
    IN poly_extend(convolution(C, AC), m)

inverse_step(p, C0) ==
    LET m == Len(p)
        proper_len == poly_length(m)
        C == poly_extend(C0, proper_len)
        A == poly_extend(p, proper_len)
        AC0 == poly_extend(convolution(A, C), m)
        AC1 == [i \in 1..m |-> FSub(0, AC0[i])]
        AC == [AC1 EXCEPT ![1] = FAdd(AC1[1], FromNumber(2))]
    IN poly_extend(convolution(C, AC), m)

\* the empty slice is not the base case: prev_mod = 0, the call is repeated on
\* the empty slice and the stack overflows, so nothing is returned
RECURSIVE inverse_internal(_)
inverse_internal(p) ==
    IF Len(p) = 1 THEN <<FDiv(1 % modulus, p[1])>>
    ELSE IF Len(p) = 0 THEN Panic
    ELSE LET C0 == inverse_internal(SubSeq(p, 1, (Len(p) + 1) \div 2))
         IN IF C0 = Panic THEN Panic ELSE inverse_step(p, C0)

PolyInverse_inverse(p, k) ==
    LET r == inverse_internal(poly_extend(p, k))
    IN IF r = Panic THEN Panic ELSE poly_trim(r)

-----------------------------------------------------------------------------
(* Poly                                                                    *)

\* new without the trim
new_untrimmed(p) == p

new(p) == poly_trim(p)

rank(p) == Len(p) - 1

zero == new(<<0>>)

one == new(<<1 % modulus>>)

default == new(<<0>>)

is_zero(p) == Len(p) = 1 /\ p[1] = 0

inverse(p, k) == IF k = 0 THEN zero ELSE new(PolyInverse_inverse(p, k))

left_shift(p, k) == IF k > Len(p) THEN Panic ELSE new(SubSeq(p, k + 1, Len(p)))

right_shift(p, k) ==
    IF is_zero(p) THEN zero
    ELSE new([i \in 1..(k + Len(p)) |-> IF i <= k THEN 0 ELSE p[i - k]])

pow2(p) == new(Convolution_pow2(p))

\* differential with the factor i + 1 in place of i
differential_off_by_one(p) ==
    new([i \in 1..rank(p) |-> FMul(p[i + 1], FromNumber(i + 1))])

differential(p) == new([i \in 1..rank(p) |-> FMul(p[i + 1], FromNumber(i))])

dot(p, q) == new([i \in 1..Min2(Len(p), Len(q)) |-> FMul(p[i], q[i])])

modular(p, k) == new(poly_modular_ref(p, k))

add(p, q) ==
    LET e == poly_extend(p, Max2(Len(p), Len(q)))
    IN new([i \in 1..Len(e) |-> IF i <= Len(q) THEN FAdd(e[i], q[i]) ELSE e[i]])

sub(p, q) ==
    LET e == poly_extend(p, Max2(Len(p), Len(q)))
    IN new([i \in 1..Len(e) |-> IF i <= Len(q) THEN FSub(e[i], q[i]) ELSE e[i]])

mul(p, q) == new(convolution(p, q))

\* div without reversing the product back
div_unreversed(p, q) ==
    IF Len(p) < Len(q) THEN default
    ELSE LET c_rank == Len(p) - Len(q)
             proper_len == poly_length(c_rank * 2 + 1)
             a == poly_modular(Reverse(p), proper_len)
             b == poly_modular(Reverse(q), proper_len)
             c == PolyInverse_inverse(b, c_rank + 1)
             prod == poly_extend(convolution(a, c), c_rank + 1)
         IN new(prod)

div(p, q) ==
    IF Len(p) < Len(q) THEN default
    ELSE LET c_rank == Len(p) - Len(q)
             proper_len == poly_length(c_rank * 2 + 1)
             a == poly_modular(Reverse(p), proper_len)
             b == poly_modular(Reverse(q), proper_len)
             c == PolyInverse_inverse(b, c_rank + 1)
             prod == poly_extend(convolution(a, c), c_rank + 1)
         IN new(Reverse(prod))

divider_and_remainder(p, q) ==
    LET a == div(p, q) IN [quot |-> a, rem |-> sub(p, mul(a, q))]

rem(p, q) == divider_and_remainder(p, q).rem

integral(p) ==
    LET rk == rank(p)
        range == [i \in 1..(rk + 1) |-> FromNumber(i)]
    IN IF \E i \in 1..(rk + 1) : ~Invertible(range[i]) THEN Panic
       ELSE LET inv == inverse_batch(range)
            IN new([i \in 1..(rk + 2) |-> IF i = 1 THEN 0 ELSE FMul(inv[i - 1], p[i - 1])])

ln(p, k) ==
    IF p[1] # 1 % modulus THEN Panic
    ELSE LET diff == modular(differential(p), k)
             inv == inverse(p, k)
             prod == modular(mul(diff, inv), k)
             ans == integral(prod)
         IN IF ans = Panic THEN Panic ELSE modular(ans, k)

\* exp0's step without adding one to the constant term
exp0_step_no_one(p, k, ans) ==
    LET l0 == ln(ans, k)
    IN IF l0 = Panic THEN Panic
       ELSE LET l1 == sub(modular(p, k), l0)
            IN modular(mul(ans, l1), k)

exp0_step(p, k, ans) ==
    LET l0 == ln(ans, k)
    IN IF l0 = Panic THEN Panic
       ELSE LET l1 == sub(modular(p, k), l0)
                l2 == [l1 EXCEPT ![1] = FAdd(l1[1], 1 % modulus)]
            IN modular(mul(ans, l2), k)

RECURSIVE exp0(_, _)
exp0(p, k) ==
    IF k = 1 THEN one
    ELSE LET ans == exp0(p, (k + 1) \div 2)
         IN IF ans = Panic THEN Panic ELSE exp0_step(p, k, ans)

exp(p, k) == IF k = 0 THEN zero ELSE exp0(modular(p, k), k)

fast_div(p, q, rhs_inv) ==
    IF Len(p) < Len(q) THEN default
    ELSE LET c_rank == Len(p) - Len(q)
             proper_len == poly_length(c_rank * 2 + 1)
             a == poly_modular(Reverse(p), proper_len)
             c == poly_modular_ref(rhs_inv, c_rank + 1)
             prod == poly_extend(convolution(a, c), c_rank + 1)
         IN new(Reverse(prod))

fast_rem(p, q, rhs_inv) ==
    LET rk == rank(p)
        d == fast_div(p, q, rhs_inv)
        r == sub(p, mul(q, d))
    IN IF rank(r) < rk THEN r ELSE Panic

\* the inverse of the reversed modulus to rank - 1 terms only
downgrade_inv_short(p) == inverse(new(Reverse(p)), rank(p) - 1)

downgrade_inv(p) == inverse(new(Reverse(p)), (rank(p) - 1) * 2 + 1 + 1)

\* one level of downgrade_mod_internal that multiplies by x on a 0 bit
downgrade_step_flipped_bit(p, bit, inv, ans0) ==
    IF ~(rank(ans0) < rank(p)) THEN Panic
    ELSE LET sq == pow2(ans0)
             ans == IF bit = 0 THEN right_shift(sq, 1) ELSE sq
         IN IF rank(ans) < rank(p) THEN ans ELSE fast_rem(ans, p, inv)

downgrade_step(p, bit, inv, ans0) ==
    IF ~(rank(ans0) < rank(p)) THEN Panic
    ELSE LET sq == pow2(ans0)
             ans == IF bit = 1 THEN right_shift(sq, 1) ELSE sq
         IN IF rank(ans) < rank(p) THEN ans ELSE fast_rem(ans, p, inv)

RECURSIVE downgrade_mod_internal(_, _, _)
downgrade_mod_internal(p, bs, inv) ==
    IF Len(bs) = 0 THEN one
    ELSE LET ans == downgrade_mod_internal(p, Tail(bs), inv)
         IN IF ans = Panic THEN Panic ELSE downgrade_step(p, Head(bs), inv, ans)

downgrade_mod(p, bs) ==
    IF rank(p) = 0 THEN zero
    ELSE downgrade_mod_internal(p, bs, downgrade_inv(p))

-----------------------------------------------------------------------------
(* The values the operations are applied to                                *)

RawSeqs(k) == UNION {[1..m -> Elems] : m \in 0..k}

Polys(k) == {new(v) : v \in RawSeqs(k)}

BitSeqs == UNION {[1..m -> {0, 1}] : m \in 0..MaxBits}

Trimmed(p) == Len(p) >= 1 /\ (Len(p) > 1 => p[Len(p)] # 0)

-----------------------------------------------------------------------------
(* State machine of the polynomial engine: the caller holds a polynomial,  *)
(* applies one public operation to it and may go on with the result.       *)

NoModInt == ma = 0 /\ mb = 0 /\ mout = 0 /\ overflow_checks = FALSE
NoTable == s = <<>> /\ f = "min" /\ data = <<>> /\ ql = 0 /\ qr = 0 /\ qres = 0

NoBatch == polys = <<>> /\ stack = <<>>
NoPoly == poly = <<0>> /\ rhs = <<>> /\ n = 0 /\ bits = <<>> /\ res = <<0>>

PolyInit(m, k) ==
    /\ modulus = m
    /\ mconst = [zero |-> 0, one |-> 1 % m, primitive_root |-> 0]
    /\ poly \in Polys(k)
    /\ rhs = <<>> /\ n = 0 /\ bits = <<>>
    /\ op = "idle" /\ res = poly
    /\ NoModInt /\ NoTable /\ NoBatch

\* an operation is called on the polynomial the caller holds
Returns(name, r, k, q, bs) ==
    /\ op = "idle"
    /\ op' = name /\ res' = r /\ n' = k /\ rhs' = q /\ bits' = bs
    /\ UNCHANGED <<modulus, mconst, poly, modVars, tableVars, batchVars>>

\* the precondition of inverse_batch: every one of 1..=k has an inverse
Divisible(k) == \A i \in 1..k : Invertible(FromNumber(i))

New == \E v \in RawSeqs(MaxLen) : Returns("new", new(v), 0, <<>>, <<>>)
Zero == Returns("zero", zero, 0, <<>>, <<>>)
One == Returns("one", one, 0, <<>>, <<>>)
Add == \E q \in Polys(MaxRhs) : Returns("add", add(poly, q), 0, q, <<>>)
Sub == \E q \in Polys(MaxRhs) : Returns("sub", sub(poly, q), 0, q, <<>>)
Mul == \E q \in Polys(MaxRhs) : Returns("mul", mul(poly, q), 0, q, <<>>)
Dot == \E q \in Polys(MaxRhs) : Returns("dot", dot(poly, q), 0, q, <<>>)
Div ==
    \E q \in Polys(MaxRhs) :
        /\ ~is_zero(q)
        /\ Returns("div", div(poly, q), 0, q, <<>>)
Rem ==
    \E q \in Polys(MaxRhs) :
        /\ ~is_zero(q)
        /\ Returns("rem", rem(poly, q), 0, q, <<>>)
PowTwo == Returns("pow2", pow2(poly), 0, <<>>, <<>>)
Modular == \E k \in 0..MaxN : Returns("modular", modular(poly, k), k, <<>>, <<>>)
LeftShift ==
    \E k \in 0..MaxN :
        /\ k <= Len(poly)
        /\ Returns("left_shift", left_shift(poly, k), k, <<>>, <<>>)
RightShift ==
    \E k \in 0..MaxN : Returns("right_shift", right_shift(poly, k), k, <<>>, <<>>)
Differential == Returns("differential", differential(poly), 0, <<>>, <<>>)
Integral ==
    /\ Divisible(rank(poly) + 1)
    /\ Returns("integral", integral(poly), 0, <<>>, <<>>)
Inverse ==
    \E k \in 0..MaxN :
        /\ Invertible(poly[1])
        /\ Returns("inverse", inverse(poly, k), k, <<>>, <<>>)
Ln ==
    \E k \in 0..MaxN :
        /\ poly[1] = 1 % modulus
        /\ Divisible(k)
        /\ Returns("ln", ln(poly, k), k, <<>>, <<>>)
Exp ==
    \E k \in 0..MaxN :
        /\ Divisible(k)
        /\ Returns("exp", exp(poly, k), k, <<>>, <<>>)
DowngradeMod ==
    \E bs \in BitSeqs : Returns("downgrade_mod", downgrade_mod(poly, bs), 0, <<>>, bs)

\* the caller goes on with the value it got
Rebind ==
    /\ op # "idle"
    /\ res # Panic
    /\ Len(res) <= MaxLen
    /\ poly' = res /\ res' = res
    /\ op' = "idle" /\ rhs' = <<>> /\ n' = 0 /\ bits' = <<>>
    /\ UNCHANGED <<modulus, mconst, modVars, tableVars, batchVars>>

Init == PolyInit(3, MaxRhs)

Next ==
    \/ New \/ Zero \/ One
    \/ Add \/ Sub \/ Mul \/ Dot \/ Div \/ Rem
    \/ PowTwo \/ Modular \/ LeftShift \/ RightShift
    \/ Differential \/ Integral \/ Inverse \/ Ln \/ Exp
    \/ DowngradeMod
    \/ Rebind

Spec == Init /\ [][Next]_vars

-----------------------------------------------------------------------------
(* The power-series operations over Z_5, where 1..4 are invertible and 5   *)
(* is not, and the round trips a caller composes from them. The            *)
(* polynomials go up to rank MaxLen, one more than the field inverts.      *)

exp_ln(p, k) == LET l0 == ln(p, k) IN IF l0 = Panic THEN Panic ELSE exp(l0, k)

ln_exp(p, k) == LET e0 == exp(p, k) IN IF e0 = Panic THEN Panic ELSE ln(e0, k)

differential_integral(p) ==
    LET i0 == integral(p) IN IF i0 = Panic THEN Panic ELSE differential(i0)

ExpOfLn ==
    \E k \in 0..MaxN :
        /\ poly[1] = 1 % modulus
        /\ Divisible(k)
        /\ Returns("exp_ln", exp_ln(poly, k), k, <<>>, <<>>)

LnOfExp ==
    \E k \in 0..MaxN :
        /\ poly[1] = 0
        /\ Divisible(k)
        /\ Returns("ln_exp", ln_exp(poly, k), k, <<>>, <<>>)

\* integral accepts any polynomial: nothing guards the composition
DifferentialOfIntegral ==
    Returns("differential_integral", differential_integral(poly), 0, <<>>, <<>>)

SeriesInit == PolyInit(5, MaxLen + 1)

SeriesNext ==
    \/ Differential \/ Integral \/ Inverse \/ Ln \/ Exp
    \/ ExpOfLn \/ LnOfExp \/ DifferentialOfIntegral

SpecSeries == SeriesInit /\ [][SeriesNext]_vars

-----------------------------------------------------------------------------
(* Modulus<T> and DynamicModInt<T, F>: T is an unsigned word of WordBits   *)
(* bits. Its + and - panic when the result leaves the word in a build with *)
(* overflow checks and wrap modulo 2^WordBits in a build without them.     *)

Word == Pow2(WordBits)

\* what a panicking + or - makes of the operation
Overflow == -1

T_add(x, y) ==
    IF x = Overflow \/ y = Overflow THEN Overflow
    ELSE IF x + y < Word THEN x + y
    ELSE IF overflow_checks THEN Overflow
    ELSE (x + y) % Word

T_sub(x, y) ==
    IF x = Overflow \/ y = Overflow THEN Overflow
    ELSE IF x >= y THEN x - y
    ELSE IF overflow_checks THEN Overflow
    ELSE (x - y + Word) % Word

Modulus_add(a, b) ==
    LET x == T_add(a, b)
    IN IF x = Overflow THEN Overflow
       ELSE IF x >= modulus \/ x < a
       THEN T_sub(T_add(a, b), modulus)
       ELSE T_add(a, b)

Modulus_sub(a, b) ==
    IF a < b
    THEN T_sub(T_add(a, b), modulus)
    ELSE T_sub(a, b)

\* the static singleton of DynamicModulusFactoryImpl!, before Modulus::set
ModInit ==
    /\ modulus = 0
    /\ mconst = [zero |-> 0, one |-> 0, primitive_root |-> 0]
    /\ op = "static"
    /\ ma = 0 /\ mb = 0 /\ mout = 0
    /\ overflow_checks \in BOOLEAN
    /\ NoPoly /\ NoTable /\ NoBatch

Set ==
    \E m \in 1..(Word - 1), g \in {0} :
        /\ op = "static"
        /\ modulus' = m
        /\ mconst' = [zero |-> 0, one |-> 1 % m, primitive_root |-> g]
        /\ op' = "set"
        /\ UNCHANGED <<polyVars, modVars, tableVars, batchVars>>

ModIntAdd ==
    \E a \in 0..(modulus - 1), b \in 0..(modulus - 1) :
        /\ op # "static"
        /\ ma' = a /\ mb' = b
        /\ mout' = Modulus_add(a, b)
        /\ op' = "add"
        /\ UNCHANGED <<modulus, mconst, overflow_checks, polyVars, tableVars, batchVars>>

ModIntSub ==
    \E a \in 0..(modulus - 1), b \in 0..(modulus - 1) :
        /\ op # "static"
        /\ ma' = a /\ mb' = b
        /\ mout' = Modulus_sub(a, b)
        /\ op' = "sub"
        /\ UNCHANGED <<modulus, mconst, overflow_checks, polyVars, tableVars, batchVars>>

ModNext == Set \/ ModIntAdd \/ ModIntSub

SpecModulus == ModInit /\ [][ModNext]_vars

-----------------------------------------------------------------------------
(* SparseTable<T> over the integers 0..MaxVal, combined by min or by max   *)

\* what an out-of-range index or a failed should! makes of a query
Abort == -1

RECURSIVE log2_floor(_)
log2_floor(k) == IF k <= 1 THEN 0 ELSE 1 + log2_floor(k \div 2)

Combine(cf, x, y) ==
    IF cf = "min" THEN (IF x < y THEN x ELSE y) ELSE (IF x > y THEN x ELSE y)

\* level i of the table from level i - 1
next_level(prev, cf, i) ==
    LET step == Pow2(i - 1)
        len == Len(prev)
    IN [j \in 1..len |->
            IF (j - 1) + step < len THEN Combine(cf, prev[j], prev[j + step])
            ELSE prev[j]]

RECURSIVE build_levels(_, _, _, _)
build_levels(d, cf, i, level) ==
    IF i >= level THEN d
    ELSE build_levels(Append(d, next_level(d[i], cf, i)), cf, i + 1, level)

SparseTable_new(xs, cf) ==
    IF Len(xs) = 0 THEN <<>>
    ELSE build_levels(<<xs>>, cf, 1, log2_floor(Len(xs)) + 1)

\* query whose second cell starts at r - 2^log
query_low_cell(d, cf, l, r) ==
    IF ~(l <= r) THEN Abort
    ELSE LET log == log2_floor(r - l + 1)
             c2 == r - Pow2(log)
         IN IF log + 1 > Len(d) THEN Abort
            ELSE IF l + 1 > Len(d[log + 1]) \/ c2 < 0 \/ c2 + 1 > Len(d[log + 1]) THEN Abort
            ELSE Combine(cf, d[log + 1][l + 1], d[log + 1][c2 + 1])

query(d, cf, l, r) ==
    IF ~(l <= r) THEN Abort
    ELSE LET log == log2_floor(r - l + 1)
             c2 == r + 1 - Pow2(log)
         IN IF log + 1 > Len(d) THEN Abort
            ELSE IF l + 1 > Len(d[log + 1]) \/ c2 < 0 \/ c2 + 1 > Len(d[log + 1]) THEN Abort
            ELSE Combine(cf, d[log + 1][l + 1], d[log + 1][c2 + 1])

Slices == UNION {[1..m -> 0..MaxVal] : m \in 1..MaxSlice}

TableInit ==
    /\ s \in Slices
    /\ f \in {"min", "max"}
    /\ data = SparseTable_new(s, f)
    /\ ql = 0 /\ qr = 0 /\ qres = 0
    /\ op = "new"
    /\ modulus = 0
    /\ mconst = [zero |-> 0, one |-> 0, primitive_root |-> 0]
    /\ NoModInt /\ NoPoly /\ NoBatch

Query ==
    \E l \in 0..(Len(s) - 1), r \in 0..(Len(s) - 1) :
        /\ l <= r
        /\ ql' = l /\ qr' = r
        /\ qres' = query(data, f, l, r)
        /\ op' = "query"
        /\ UNCHANGED <<modulus, mconst, polyVars, modVars, s, f, data, batchVars>>

TableNext == Query

SpecTable == TableInit /\ [][TableNext]_vars

\* ---------------------------------------------------------------------------
\* Poly::batch_mul: the divide-and-conquer product of a slice of polynomials.
\* Each active call is a frame of the stack: the sub-slice it was given
\* (polys[lo .. lo + len - 1]), its position, and the products of its halves
\* (a is computed before b: the left operand of * is evaluated first).
\* ---------------------------------------------------------------------------

Frame(lo, len) == [lo |-> lo, len |-> len, pc |-> "entry", a |-> <<>>, b |-> <<>>]

Top == stack[Len(stack)]

\* every sequence of at most MaxBatch polynomials, the empty one included
BatchSlices == UNION {[1..m -> Polys(MaxFactor)] : m \in 0..MaxBatch}

BatchInit ==
    /\ modulus = 3
    /\ mconst = [zero |-> 0, one |-> 1, primitive_root |-> 0]
    /\ polys \in BatchSlices
    /\ stack = <<>>
    /\ op = "idle" /\ res = <<>>
    /\ poly = <<>> /\ rhs = <<>> /\ n = 0 /\ bits = <<>>
    /\ NoModInt /\ NoTable

\* the value v leaves the top frame: to the caller of batch_mul when the frame
\* is the outermost one, otherwise to the frame below, which called it for its
\* left half (and goes on to the right half) or for its right half (and
\* multiplies)
BatchReturn(v) ==
    IF Len(stack) = 1
    THEN /\ stack' = <<>>
         /\ res' = v
         /\ op' = "batch_mul"
    ELSE LET below == stack[Len(stack) - 1]
             rest == SubSeq(stack, 1, Len(stack) - 2)
         IN  /\ stack' = IF below.pc = "left"
                         THEN Append(rest, [below EXCEPT !.pc = "right", !.a = v])
                         ELSE Append(rest, [below EXCEPT !.pc = "mul", !.b = v])
             /\ UNCHANGED <<op, res>>

\* the caller hands the whole slice to batch_mul
BatchCall ==
    /\ op = "idle" /\ stack = <<>>
    /\ stack' = <<Frame(1, Len(polys))>>
    /\ op' = "running"
    /\ UNCHANGED <<modulus, mconst, polyVars, modVars, tableVars, polys>>

\* polys.len() == 1: the only polynomial of the slice is returned
BatchBase ==
    /\ op = "running" /\ Top.pc = "entry" /\ Top.len = 1
    /\ BatchReturn(polys[Top.lo])
    /\ UNCHANGED <<modulus, mconst, poly, rhs, n, bits, modVars, tableVars, polys>>

\* any other length: split at mid = len >> 1 and call batch_mul on the left half
BatchLeft ==
    /\ op = "running" /\ Top.pc = "entry" /\ Top.len # 1
    /\ Len(stack) < MaxDepth
    /\ LET mid == Top.len \div 2
       IN  stack' = Append(Append(SubSeq(stack, 1, Len(stack) - 1),
                                  [Top EXCEPT !.pc = "left"]),
                           Frame(Top.lo, mid))
    /\ UNCHANGED <<modulus, mconst, polyVars, op, modVars, tableVars, polys>>

\* the left product is known: call batch_mul on the right half (the stack is
\* as deep as it was when the left call was made, so there is room)
BatchRight ==
    /\ op = "running" /\ Top.pc = "right"
    /\ Len(stack) < MaxDepth
    /\ LET mid == Top.len \div 2
       IN  stack' = Append(stack, Frame(Top.lo + mid, Top.len - mid))
    /\ UNCHANGED <<modulus, mconst, polyVars, op, modVars, tableVars, polys>>

\* both products are known: their product is returned
BatchMul ==
    /\ op = "running" /\ Top.pc = "mul"
    /\ BatchReturn(mul(Top.a, Top.b))
    /\ UNCHANGED <<modulus, mconst, poly, rhs, n, bits, modVars, tableVars, polys>>

\* a call that needs one more frame than the stack holds ends the process
BatchOverflow ==
    /\ op = "running" /\ Top.pc = "entry" /\ Top.len # 1
    /\ Len(stack) = MaxDepth
    /\ op' = "stack_overflow"
    /\ UNCHANGED <<modulus, mconst, poly, rhs, n, bits, res, modVars, tableVars, batchVars>>

BatchNext ==
    \/ BatchCall
    \/ BatchBase
    \/ BatchLeft
    \/ BatchRight
    \/ BatchMul
    \/ BatchOverflow

SpecBatch == BatchInit /\ [][BatchNext]_vars

-----------------------------------------------------------------------------
(* Reference definitions the claims are stated with                        *)

\* the exponent a bit sequence spells when its first bit is the least significant
RECURSIVE ExponentLsbFirst(_)
ExponentLsbFirst(bs) ==
    IF Len(bs) = 0 THEN 0 ELSE Head(bs) + 2 * ExponentLsbFirst(Tail(bs))

\* the exponent a bit sequence spells when its first bit is the most significant
RECURSIVE ExponentMsbFirst(_)
ExponentMsbFirst(bs) ==
    IF Len(bs) = 0 THEN 0
    ELSE Head(bs) * Pow2(Len(bs) - 1) + ExponentMsbFirst(Tail(bs))

\* x * r mod M by schoolbook reduction, for rank(r) < rank(M)
TimesXMod(r, M) ==
    LET sh == poly_trim(<<0>> \o r)
    IN IF Len(sh) < Len(M) THEN sh
       ELSE LET c == FDiv(sh[Len(sh)], M[Len(M)])
            IN poly_trim([i \in 1..Len(sh) |-> FSub(sh[i], FMul(c, M[i]))])

\* a + b for coefficient sequences, trimmed
PlusRef(a, b) ==
    poly_trim([i \in 1..Max2(Len(a), Len(b)) |->
        FAdd(IF i <= Len(a) THEN a[i] ELSE 0, IF i <= Len(b) THEN b[i] ELSE 0)])

\* a * b mod M by Horner's rule on a, for rank(b) < rank(M)
RECURSIVE TimesMod(_, _, _)
TimesMod(a, b, M) ==
    IF Len(a) = 0 THEN <<0>>
    ELSE PlusRef([i \in 1..Len(b) |-> FMul(a[1], b[i])],
                 TimesXMod(TimesMod(Tail(a), b, M), M))

\* x^e mod M by schoolbook arithmetic on the number e
RECURSIVE XPowMod(_, _)
XPowMod(M, e) ==
    IF e = 0 THEN <<1 % modulus>>
    ELSE LET h == XPowMod(M, e \div 2)
             sq == TimesMod(h, h, M)
         IN IF e % 2 = 1 THEN TimesXMod(sq, M) ELSE sq

\* what downgrade_mod_internal hands to fast_rem, or keeps, at its outermost level
Dividend(M, bs) ==
    LET sq == pow2(downgrade_mod(M, Tail(bs)))
    IN IF Head(bs) = 1 THEN right_shift(sq, 1) ELSE sq

-----------------------------------------------------------------------------
(* Claims                                                                  *)

\* C1 (as amended): for a modulus M of rank >= 1, downgrade_mod(M, bits)
\* returns x^e mod M where e is spelled by the bits with the FIRST bit the
\* iterator yields as the LEAST significant one; the empty sequence gives 1.
C1_DowngradeLsbFirst ==
    (op = "downgrade_mod" /\ rank(poly) >= 1)
        => res = XPowMod(poly, ExponentLsbFirst(bits))

\* C1 as stated: the first bit the iterator yields is the most significant one.
C1_DowngradeMsbFirst ==
    (op = "downgrade_mod" /\ rank(poly) >= 1)
        => res = XPowMod(poly, ExponentMsbFirst(bits))

C1_Witness ==
    /\ op = "downgrade_mod" /\ rank(poly) = 2 /\ bits = <<1, 1, 0, 1>>
    /\ rank(Dividend(poly, bits)) >= rank(poly)
    /\ res = XPowMod(poly, 11)
    /\ res # XPowMod(poly, 13)

\* C2: for p with invertible constant term and n >= 1, p * inverse(p, n) is 1
\* modulo x^n; inverse([1,1], 4) is [1,-1,1,-1].
C2_InverseCorrect ==
    (op = "inverse" /\ n >= 1)
        => /\ modular(mul(poly, res), n) = <<1>>
           /\ Len(res) <= n
           /\ (poly = <<1, 1>> /\ n = 4)
                => res = <<1, modulus - 1, 1, modulus - 1>>

C2_Witness ==
    /\ op = "inverse" /\ n = 3 /\ Len(poly) = 4 /\ Len(res) = 3
    /\ modular(mul(poly, res), n) = <<1>>

\* C3 (as amended): for nonzero b, (a / b) * b + (a % b) = a; when
\* rank(a) >= rank(b) >= 1 the remainder has rank < rank(b); when b is a
\* nonzero constant the remainder is the zero polynomial [0], of rank 0.
C3_RemainderRank ==
    op = "rem"
        => /\ add(mul(div(poly, rhs), rhs), res) = poly
           /\ (rank(poly) >= rank(rhs) /\ rank(rhs) >= 1) => rank(res) < rank(rhs)
           /\ rank(rhs) = 0 => res = <<0>>

\* C3 as stated: rank(a % b) < rank(b) for every nonzero b with
\* rank(a) >= rank(b), constants included.
C3_RemainderRankAnyDivisor ==
    (op = "rem" /\ rank(poly) >= rank(rhs))
        => /\ add(mul(div(poly, rhs), rhs), res) = poly
           /\ rank(res) < rank(rhs)

C3_Witness ==
    /\ op = "rem" /\ poly = <<1, 1, 1>> /\ rhs = <<1, 1>>
    /\ div(poly, rhs) = <<0, 1>> /\ res = <<1>>

\* C6: every value an operation returns, and every value the caller holds, is
\* trimmed: at least one coefficient, and no trailing zero unless it is [0];
\* differential of a constant, modular(0) and left_shift by rank+1 give [0].
C6_Trimmed ==
    /\ res # Panic
    /\ Trimmed(res) /\ Trimmed(poly)
    /\ (op = "differential" /\ Len(poly) = 1) => res = <<0>>
    /\ (op = "modular" /\ n = 0) => res = <<0>>
    /\ (op = "left_shift" /\ n = rank(poly) + 1) => res = <<0>>

C6_Witness ==
    /\ op = "sub" /\ Len(poly) = 3 /\ Len(rhs) = 3 /\ poly[3] = rhs[3]
    /\ poly[2] = rhs[2] /\ poly[1] # rhs[1] /\ Len(res) = 1

\* C8: on a modulus M of rank >= 1 no assertion of downgrade_mod fails, and
\* the value every level returns, fast_rem's result included, has rank below
\* rank(M) and below the rank of the dividend fast_rem was given.
C8_DowngradeAssertions ==
    (op = "downgrade_mod" /\ rank(poly) >= 1)
        => /\ res # Panic
           /\ rank(res) < rank(poly)
           /\ (Len(bits) > 0 /\ rank(Dividend(poly, bits)) >= rank(poly))
                => rank(res) < rank(Dividend(poly, bits))

C8_Witness ==
    /\ op = "downgrade_mod" /\ rank(poly) = 3 /\ Len(bits) = 4
    /\ rank(Dividend(poly, bits)) = 5
    /\ res # Panic /\ rank(res) = 2

\* C4 (as amended): where 1..n are invertible in the field, for f with
\* constant term 1 and every n >= 0, exp(ln(f, n), n) = f modulo x^n; for g
\* with constant term 0 and every n >= 1, ln(exp(g, n), n) = g modulo x^n.
C4_LnExpInverse ==
    /\ op = "exp_ln" => (res # Panic /\ modular(res, n) = modular(poly, n))
    /\ (op = "ln_exp" /\ n >= 1) => (res # Panic /\ modular(res, n) = modular(poly, n))

\* C4 as stated: both laws at every precision n, n = 0 included.
C4_LnExpInverseAnyPrecision ==
    /\ op = "exp_ln" => (res # Panic /\ modular(res, n) = modular(poly, n))
    /\ op = "ln_exp" => (res # Panic /\ modular(res, n) = modular(poly, n))

C4_Witness ==
    /\ op = "ln_exp" /\ n = 4 /\ poly = <<0, 1, 2, 3>>
    /\ exp(poly, n) = <<1, 1, 0, 1>>
    /\ res = poly

\* C5 (as amended): differential(integral(p)) = p for every p, the zero
\* polynomial and constants included, for which 1..rank+1 are invertible in
\* the field; for every other p integral hands a zero to inverse_batch and
\* the composition yields no value.
C5_DifferentialIntegral ==
    op = "differential_integral"
        => IF Divisible(rank(poly) + 1) THEN res = poly ELSE res = Panic

\* C5 as stated: differential(integral(p)) = p for all polynomials p over the
\* field.
C5_DifferentialIntegralAnyPolynomial ==
    op = "differential_integral" => res = poly

C5_Witness ==
    /\ op = "differential_integral" /\ poly = <<1, 2, 3, 4>>
    /\ integral(poly) = <<0, 1, 1, 1, 1>>
    /\ res = poly

\* x^4 over Z_5: integral needs the inverse of 5 = 0
DifferentialIntegralUndefined ==
    /\ op = "differential_integral" /\ poly = <<0, 0, 0, 0, 1>>
    /\ integral(poly) = Panic
    /\ res = Panic

\* C7: for a table built from a nonempty slice with min (or max), query(l, r)
\* with 0 <= l <= r < n returns the combination of s[l], ..., s[r], both ends
\* included, and reads no cell outside the built levels and columns.
C7_QueryRange ==
    op = "query"
        => LET range == {s[i] : i \in (ql + 1)..(qr + 1)}
           IN /\ qres # Abort
              /\ qres \in range
              /\ f = "min" => \A v \in range : qres <= v
              /\ f = "max" => \A v \in range : qres >= v

C7_Witness ==
    /\ op = "query" /\ s = <<3, 1, 4, 2>> /\ f = "min"
    /\ Len(data) = 3
    /\ ql = 1 /\ qr = 3 /\ qres = 1

\* C9: for every modulus m >= 1 and residues a, b < m, Modulus::sub(a, b)
\* returns (a - b) mod m, a value in [0, m), without unsigned underflow.
C9_SubCorrect ==
    op = "sub"
        => /\ mout = (ma - mb + modulus) % modulus
           /\ mout \in 0..(modulus - 1)

\* C10: for every modulus m >= 1 of the word and residues a, b < m,
\* Modulus::add(a, b) returns (a + b) mod m, a value in [0, m), also when
\* a + b exceeds the word.
C10_AddCorrect ==
    op = "add"
        => /\ mout = (ma + mb) % modulus
           /\ mout \in 0..(modulus - 1)

\* what the code does guarantee: add panics when a + b leaves the word in a
\* build with overflow checks, and returns (a + b) mod m otherwise
AddCorrectOrOverflow ==
    op = "add"
        => IF overflow_checks /\ ma + mb >= Word
           THEN mout = Overflow
           ELSE mout = (ma + mb) % modulus /\ mout \in 0..(modulus - 1)

\* a sum that leaves the word, in each of the two builds
AddWrapped ==
    /\ op = "add" /\ ~overflow_checks /\ ma + mb >= Word
    /\ T_add(ma, mb) < ma
    /\ mout = ma + mb - modulus

AddPanicked ==
    /\ op = "add" /\ overflow_checks /\ modulus = 7 /\ ma = 6 /\ mb = 6
    /\ mout = Overflow

\* ---------------------------------------------------------------------------
\* batch_mul
\* ---------------------------------------------------------------------------

\* the product of all polynomials of a slice, taken one after the other
RECURSIVE ProductRef(_)
ProductRef(ps) ==
    IF Len(ps) = 0 THEN one ELSE mul(Head(ps), ProductRef(Tail(ps)))

\* every call but the outermost one was given a strictly shorter slice than
\* the call that made it
StrictlyShorter == \A i \in 2..Len(stack) : stack[i].len < stack[i - 1].len

\* C11: for every slice handed to batch_mul the recursion terminates: every
\* recursive call is made on a strictly shorter slice than its caller's, the
\* stack never overflows, and the value returned is the product of all the
\* polynomials of the slice.
C11_BatchMulTerminates ==
    /\ StrictlyShorter
    /\ op # "stack_overflow"
    /\ (op = "batch_mul" => res = ProductRef(polys))

\* what the code does guarantee: the same, for slices of at least one polynomial
BatchMulNonEmpty == Len(polys) >= 1 => C11_BatchMulTerminates

\* a slice of three polynomials whose product batch_mul has returned
BatchMulThreeReturned ==
    Len(polys) = 3 /\ op = "batch_mul" /\ res = ProductRef(polys) /\ Len(res) = 4

====
